---- MODULE Spec2Model ----
(***************************************************************************)
(* Mission model of the USV dashboard (types/mission.ts) and the App      *)
(* component's mission handlers (App.tsx).                                 *)
(*                                                                         *)
(* JavaScript objects have identity, so "does not mutate its input" is a  *)
(* statement about the heap.  The model keeps an explicit heap: waypoint  *)
(* objects, waypoint arrays, metadata objects and mission objects live in *)
(* four address-indexed sequences; an address is a position in its        *)
(* sequence and allocation appends.  Every function of mission.ts is an   *)
(* operator from a heap (and arguments) to a new heap and a returned      *)
(* address.                                                                *)
(***************************************************************************)
EXTENDS Integers, Sequences, FiniteSets, TLC

VARIABLES
    heap,             \* the JavaScript heap: waypoint, array, metadata and mission objects
    mission,          \* App state: address of the held Mission
    addWaypointMode,  \* App state
    missionLog,       \* App state: MissionLogEntry list, newest first
    lastToast,        \* text of the latest toast
    now,              \* the wall clock
    call,             \* the latest call of a mission.ts function
    converted,        \* every missionToMavlinkFormat call so far: argument and returned array
    added,            \* positions added since the held mission was created empty
    ncalls,           \* calls made by the function harness
    sendClicks,       \* clicks on the "Send to USV" button so far
    reads,            \* what consumers have read: an address and the value read there
    svc,              \* calls of MockMavLinkService methods so far, with their outcome
    vehicle,          \* what the vehicle answers to a mission upload
    bridge,           \* a bridge service behind IBridgeService: one mission upload
    vehiclePosition,  \* App state: latest VehiclePosition, <<>> for null
    trail,            \* App state: [lat, lon] pairs, oldest first
    stream,           \* the telemetry timers of App and what the position timer delivered
    clickHandler,     \* MapView: the addWaypointMode the registered click handler closed over
    panel             \* AlertsThresholds: its sensorData prop, its state and the toasts of its last handler

\* the variables of MockMavLinkService and of the vehicle it would talk to
serviceVars == <<svc, vehicle>>

\* the variables of the position telemetry
telemetryVars == <<vehiclePosition, trail, stream>>

vars == <<heap, mission, addWaypointMode, missionLog, lastToast, now,
          call, converted, added, ncalls, sendClicks, reads, serviceVars,
          bridge, telemetryVars, clickHandler, panel>>

----------------------------------------------------------------------------
(* Bounds of the model *)

\* longest waypoint list an add may extend
MaxWaypoints == 2
\* number of mission objects the heap may hold
MaxMissions == 3
\* number of waypoint arrays the heap may hold
MaxArrays == 4
\* entries kept in the mission log before send is disabled in the model
MaxLog == 1
\* last clock tick
MaxTime == 1
\* longest waypoint list of an input mission of the function harness
MaxLen == 2
\* calls the function harness makes on one input mission
MaxCalls == 2
\* calls made on MockMavLinkService
MaxServiceCalls == 2
\* uploadMission calls made on the bridge
MaxUploads == 2
\* position updates delivered by the position timer
MaxDeliveries == 3
\* calls of the position effect's cleanup function
MaxCleanups == 2
\* position updates delivered while the mission is edited
MaxUpdates == 1
\* mission objects created by a run of adds and clears
MaxEdits == 5
\* position updates delivered beyond the trail's capacity
MaxOverflow == 2
\* calls of handleSendWaypoints, with or without waypoints
MaxSends == 3

\* most calls of handleSave
MaxSaves == 1

----------------------------------------------------------------------------
(* Enumerations and input sets *)

MAV_CMD_NAV_WAYPOINT == 16
MAV_CMD_NAV_LOITER_TIME == 19
MAV_FRAME_GLOBAL == 0
MAV_FRAME_GLOBAL_RELATIVE_ALT == 3

\* longest trail App keeps
TRAIL_CAP == 300

\* [lat, lon] pairs a map click or a caller can supply; the second is outside
\* the valid range of latitude and longitude
Positions == { <<15, 73>>, <<-91, 181>> }

\* seq arguments a direct caller of createWaypoint can supply
SeqInputs == { -1, 0, 1 }

\* new Date().toISOString(): the ISO 8601 text of the instant t
toISOString(t) == <<"ISO8601", t>>

\* Date.now().toString(): the decimal text of the instant t
toDecimalString(t) == <<"ms", t>>

\* new Date().toLocaleString('en-US', {...}): the en-US text of the instant t
toLocaleString(t) == <<"en-US", t>>

----------------------------------------------------------------------------
(* The heap *)

\* no object allocated yet
EmptyHeap == [wps |-> <<>>, arrays |-> <<>>, metas |-> <<>>, missions |-> <<>>]

\* the waypoint objects of mission object m, in array order
WaypointsOf(h, m) ==
    LET arr == h.arrays[h.missions[m].waypoints]
    IN  [i \in 1..Len(arr) |-> h.wps[arr[i]]]

\* the waypoint objects an array holds, in array order
ItemsOf(h, a) == [i \in 1..Len(h.arrays[a]) |-> h.wps[h.arrays[a][i]]]

\* mission object m read through all its references
MissionValue(h, m) ==
    [waypoints |-> WaypointsOf(h, m),
     currentWaypointIndex |-> h.missions[m].currentWaypointIndex,
     metadata |-> h.metas[h.missions[m].metadata]]

----------------------------------------------------------------------------
(* types/mission.ts *)

\* createEmptyMission with "no current waypoint" written as -1
createEmptyMission_noCurrent(h, t) ==
    LET nowIso == toISOString(t)
        a == Len(h.arrays) + 1
        md == Len(h.metas) + 1
        m == Len(h.missions) + 1
    IN  [heap |-> [h EXCEPT
                     !.arrays = Append(@, <<>>),
                     !.metas = Append(@, [name |-> "USV Mission",
                                          createdAt |-> nowIso,
                                          updatedAt |-> nowIso]),
                     !.missions = Append(@, [waypoints |-> a,
                                             currentWaypointIndex |-> -1,
                                             metadata |-> md])],
         ret |-> m]

\* createEmptyMission(), called at instant t
createEmptyMission(h, t) ==
    LET nowIso == toISOString(t)
        a == Len(h.arrays) + 1
        md == Len(h.metas) + 1
        m == Len(h.missions) + 1
    IN  [heap |-> [h EXCEPT
                     !.arrays = Append(@, <<>>),
                     !.metas = Append(@, [name |-> "USV Mission",
                                          createdAt |-> nowIso,
                                          updatedAt |-> nowIso]),
                     !.missions = Append(@, [waypoints |-> a,
                                             currentWaypointIndex |-> 0,
                                             metadata |-> md])],
         ret |-> m]

\* the waypoint object createWaypoint builds
DefaultWaypoint(seq, lat, lon) ==
    [seq |-> seq,
     frame |-> MAV_FRAME_GLOBAL_RELATIVE_ALT,
     command |-> MAV_CMD_NAV_WAYPOINT,
     current |-> FALSE,
     autocontinue |-> TRUE,
     param1 |-> 0,
     param2 |-> 2,
     param3 |-> 0,
     param4 |-> 0,
     x |-> lat,
     y |-> lon,
     z |-> 0]

\* createWaypoint with latitude stored in y and longitude in x
createWaypoint_swapped(h, seq, lat, lon) ==
    [heap |-> [h EXCEPT !.wps = Append(@, DefaultWaypoint(seq, lon, lat))],
     ret |-> Len(h.wps) + 1]

\* createWaypoint that clamps the coordinates to their valid range and seq to 0
createWaypoint_clamped(h, seq, lat, lon) ==
    [heap |-> [h EXCEPT !.wps = Append(@,
                 DefaultWaypoint(IF seq < 0 THEN 0 ELSE seq,
                                 IF lat < -90 THEN -90 ELSE IF lat > 90 THEN 90 ELSE lat,
                                 IF lon < -180 THEN -180 ELSE IF lon > 180 THEN 180 ELSE lon))],
     ret |-> Len(h.wps) + 1]

\* createWaypoint(seq, lat, lon)
createWaypoint(h, seq, lat, lon) ==
    [heap |-> [h EXCEPT !.wps = Append(@, DefaultWaypoint(seq, lat, lon))],
     ret |-> Len(h.wps) + 1]

\* addWaypointToMission numbering the new waypoint from 1
addWaypointToMission_seqFromOne(h, m, lat, lon, t) ==
    LET seq == Len(h.arrays[h.missions[m].waypoints]) + 1
        cw == createWaypoint(h, seq, lat, lon)
        h1 == cw.heap
        a == Len(h1.arrays) + 1
        md == Len(h1.metas) + 1
    IN  [heap |-> [h1 EXCEPT
                     !.arrays = Append(@, Append(h1.arrays[h1.missions[m].waypoints],
                                                 cw.ret)),
                     !.metas = Append(@, [h1.metas[h1.missions[m].metadata]
                                            EXCEPT !.updatedAt = toISOString(t)]),
                     !.missions = Append(@, [h1.missions[m] EXCEPT
                                               !.waypoints = a,
                                               !.metadata = md])],
         ret |-> Len(h1.missions) + 1]

\* addWaypointToMission with mission.waypoints.push(newWaypoint): the result
\* shares the input's array
addWaypointToMission_push(h, m, lat, lon, t) ==
    LET seq == Len(h.arrays[h.missions[m].waypoints])
        cw == createWaypoint(h, seq, lat, lon)
        h1 == cw.heap
        md == Len(h1.metas) + 1
    IN  [heap |-> [h1 EXCEPT
                     !.arrays[h1.missions[m].waypoints] = Append(@, cw.ret),
                     !.metas = Append(@, [h1.metas[h1.missions[m].metadata]
                                            EXCEPT !.updatedAt = toISOString(t)]),
                     !.missions = Append(@, [h1.missions[m] EXCEPT
                                               !.metadata = md])],
         ret |-> Len(h1.missions) + 1]

\* addWaypointToMission that rebuilds the mission from createEmptyMission's
\* fields instead of spreading the input
addWaypointToMission_fresh(h, m, lat, lon, t) ==
    LET seq == Len(h.arrays[h.missions[m].waypoints])
        cw == createWaypoint(h, seq, lat, lon)
        h1 == cw.heap
        a == Len(h1.arrays) + 1
        md == Len(h1.metas) + 1
    IN  [heap |-> [h1 EXCEPT
                     !.arrays = Append(@, Append(h1.arrays[h1.missions[m].waypoints],
                                                 cw.ret)),
                     !.metas = Append(@, [name |-> "USV Mission",
                                          createdAt |-> toISOString(t),
                                          updatedAt |-> toISOString(t)]),
                     !.missions = Append(@, [waypoints |-> a,
                                             currentWaypointIndex |-> 0,
                                             metadata |-> md])],
         ret |-> Len(h1.missions) + 1]

\* addWaypointToMission(mission, lat, lon), called at instant t
addWaypointToMission(h, m, lat, lon, t) ==
    LET seq == Len(h.arrays[h.missions[m].waypoints])
        cw == createWaypoint(h, seq, lat, lon)
        h1 == cw.heap
        newWaypoint == cw.ret
        a == Len(h1.arrays) + 1
        md == Len(h1.metas) + 1
    IN  [heap |-> [h1 EXCEPT
                     !.arrays = Append(@, Append(h1.arrays[h1.missions[m].waypoints],
                                                 newWaypoint)),
                     !.metas = Append(@, [h1.metas[h1.missions[m].metadata]
                                            EXCEPT !.updatedAt = toISOString(t)]),
                     !.missions = Append(@, [h1.missions[m] EXCEPT
                                               !.waypoints = a,
                                               !.metadata = md])],
         ret |-> Len(h1.missions) + 1]

\* missionToMavlinkFormat marking the waypoint whose seq is 0
missionToMavlinkFormat_bySeq(h, m) ==
    LET arr == h.arrays[h.missions[m].waypoints]
        base == Len(h.wps)
        copies == [idx \in 1..Len(arr) |->
                     [h.wps[arr[idx]] EXCEPT !.current = (h.wps[arr[idx]].seq = 0)]]
    IN  [heap |-> [h EXCEPT
                     !.wps = @ \o copies,
                     !.arrays = Append(@, [idx \in 1..Len(arr) |-> base + idx])],
         ret |-> Len(h.arrays) + 1]

\* missionToMavlinkFormat without the clone: wp.current = idx === 0; return wp
missionToMavlinkFormat_inPlace(h, m) ==
    LET arr == h.arrays[h.missions[m].waypoints]
    IN  [heap |-> [h EXCEPT
                     !.wps = [a \in 1..Len(h.wps) |->
                                IF \E idx \in 1..Len(arr) : arr[idx] = a
                                THEN [h.wps[a] EXCEPT !.current = (arr[1] = a)]
                                ELSE h.wps[a]],
                     !.arrays = Append(@, arr)],
         ret |-> Len(h.arrays) + 1]

\* missionToMavlinkFormat that also renumbers seq by position
missionToMavlinkFormat_renumber(h, m) ==
    LET arr == h.arrays[h.missions[m].waypoints]
        base == Len(h.wps)
        copies == [idx \in 1..Len(arr) |->
                     [h.wps[arr[idx]] EXCEPT !.current = (idx - 1 = 0),
                                             !.seq = idx - 1]]
    IN  [heap |-> [h EXCEPT
                     !.wps = @ \o copies,
                     !.arrays = Append(@, [idx \in 1..Len(arr) |-> base + idx])],
         ret |-> Len(h.arrays) + 1]

\* missionToMavlinkFormat with a one-entry cache keyed on the waypoint count
missionToMavlinkFormat_cached(h, m) ==
    LET arr == h.arrays[h.missions[m].waypoints]
        base == Len(h.wps)
        copies == [idx \in 1..Len(arr) |->
                     [h.wps[arr[idx]] EXCEPT !.current = (idx - 1 = 0)]]
        cached == IF converted = <<>> THEN 0 ELSE converted[Len(converted)].ret
    IN  IF cached # 0 /\ Len(h.arrays[cached]) = Len(arr)
        THEN [heap |-> h, ret |-> cached]
        ELSE [heap |-> [h EXCEPT
                     !.wps = @ \o copies,
                     !.arrays = Append(@, [idx \in 1..Len(arr) |-> base + idx])],
              ret |-> Len(h.arrays) + 1]

\* missionToMavlinkFormat that walks the waypoints from the last to the first
missionToMavlinkFormat_reversed(h, m) ==
    LET arr == h.arrays[h.missions[m].waypoints]
        base == Len(h.wps)
        copies == [idx \in 1..Len(arr) |->
                     [h.wps[arr[Len(arr) + 1 - idx]] EXCEPT !.current = (idx - 1 = 0)]]
    IN  [heap |-> [h EXCEPT
                     !.wps = @ \o copies,
                     !.arrays = Append(@, [idx \in 1..Len(arr) |-> base + idx])],
         ret |-> Len(h.arrays) + 1]

\* missionToMavlinkFormat(mission)
missionToMavlinkFormat(h, m) ==
    LET arr == h.arrays[h.missions[m].waypoints]
        base == Len(h.wps)
        copies == [idx \in 1..Len(arr) |->
                     [h.wps[arr[idx]] EXCEPT !.current = (idx - 1 = 0)]]
    IN  [heap |-> [h EXCEPT
                     !.wps = @ \o copies,
                     !.arrays = Append(@, [idx \in 1..Len(arr) |-> base + idx])],
         ret |-> Len(h.arrays) + 1]

----------------------------------------------------------------------------
(* Record of the latest call of a mission.ts function: its arguments, the  *)
(* instant of the call, the heap before the call and the returned address. *)

NoCall ==
    [op |-> "none", arg |-> 0, seq |-> 0, lat |-> 0, lon |-> 0, t |-> 0,
     ret |-> 0, pre |-> EmptyHeap]

CallOf(op, arg, seq, lat, lon, t, ret, pre) ==
    [op |-> op, arg |-> arg, seq |-> seq, lat |-> lat, lon |-> lon, t |-> t,
     ret |-> ret, pre |-> pre]

----------------------------------------------------------------------------
(* Values the service, bridge and telemetry variables start with *)

\* the vehicle has not answered
VehicleSilent == [kind |-> "none", code |-> 0]

\* IBridgeService with no upload requested yet
IdleBridge ==
    [state |-> "Idle", mission |-> 0, setAsCurrent |-> FALSE, items |-> 0,
     sent |-> <<>>, received |-> 0, ack |-> VehicleSilent, timedOut |-> FALSE,
     result |-> <<>>, calls |-> 0]

\* the telemetry effects of a mounted App: both intervals are running,
----------------------------------------------------------------------------
(* AlertsThresholds.tsx: numbers, strings and the alert checks *)

\* numbers are fixed-point: a number x is the integer x * Scale; every number
\* the panel meets here has at most one fraction digit
Scale == 10

\* the decimal literal w.t
Dec(w, t) == w * Scale + t * (Scale \div 10)

\* strings are sequences of one-character strings
Digits == <<"0", "1", "2", "3", "4", "5", "6", "7", "8", "9">>

IsDigit(c) == \E i \in 1..10 : Digits[i] = c

DigitValue(c) == (CHOOSE i \in 1..10 : Digits[i] = c) - 1

\* length of the longest prefix of s made of digits
DigitPrefixLen(s) ==
    LET ks == {k \in 0..Len(s) : \A i \in 1..k : IsDigit(s[i])}
    IN  CHOOSE k \in ks : \A j \in ks : j <= k

\* value of a digit string read as an integer
RECURSIVE IntegerValue(_)
IntegerValue(ds) ==
    IF ds = <<>> THEN 0
    ELSE 10 * IntegerValue(SubSeq(ds, 1, Len(ds) - 1)) + DigitValue(ds[Len(ds)])

\* value of a digit string read as the digits after a decimal point
RECURSIVE FractionValue(_, _)
FractionValue(ds, unit) ==
    IF ds = <<>> THEN 0
    ELSE DigitValue(ds[1]) * (unit \div 10) + FractionValue(Tail(ds), unit \div 10)

\* parseFloat(s): an optional sign, then the longest prefix that is a decimal
\* literal (digits, optionally a point and digits, or a point and digits);
\* NaN when that prefix has no digit. What follows the prefix is ignored.
parseFloat(s) ==
    LET signed == Len(s) > 0 /\ s[1] \in {"-", "+"}
        body == IF signed THEN Tail(s) ELSE s
        ni == DigitPrefixLen(body)
        rest == SubSeq(body, ni + 1, Len(body))
        fraction == IF Len(rest) > 0 /\ rest[1] = "." THEN Tail(rest) ELSE <<>>
        nf == DigitPrefixLen(fraction)
        magnitude == IntegerValue(SubSeq(body, 1, ni)) * Scale
                     + FractionValue(SubSeq(fraction, 1, nf), Scale)
    IN  IF ni = 0 /\ nf = 0
        THEN [nan |-> TRUE, value |-> 0]
        ELSE [nan |-> FALSE,
              value |-> IF signed /\ s[1] = "-" THEN 0 - magnitude ELSE magnitude]

isNaN(n) == n.nan

\* digits of a natural number
RECURSIVE IntegerDigits(_)
IntegerDigits(n) ==
    IF n < 10 THEN <<Digits[n + 1]>>
    ELSE IntegerDigits(n \div 10) \o <<Digits[(n % 10) + 1]>>

\* digits of a fraction f / Scale, without trailing zeros
RECURSIVE FractionDigits(_)
FractionDigits(f) ==
    IF f = 0 THEN <<>>
    ELSE <<Digits[((f * 10) \div Scale) + 1]>> \o FractionDigits((f * 10) % Scale)

\* Number.prototype.toString() of the number v / Scale
numberToString(v) ==
    LET a == IF v < 0 THEN 0 - v ELSE v
        whole == IntegerDigits(a \div Scale)
        fraction == FractionDigits(a % Scale)
    IN  (IF v < 0 THEN <<"-">> ELSE <<>>)
        \o whole
        \o (IF fraction = <<>> THEN <<>> ELSE <<".">> \o fraction)

\* the order in which the render pushes alerts
ParamOrder == <<"ph", "temperature", "turbidity", "tds">>

\* getInitialThresholds() with nothing saved in localStorage
DefaultThresholds ==
    [ph          |-> [min |-> Dec(6, 5), max |-> Dec(8, 5),   optimal |-> Dec(7, 0)],
     temperature |-> [min |-> Dec(15, 0), max |-> Dec(30, 0), optimal |-> Dec(22, 0)],
     turbidity   |-> [min |-> 0, max |-> Dec(5, 0),           optimal |-> Dec(2, 0)],
     tds         |-> [min |-> 0, max |-> Dec(500, 0),         optimal |-> Dec(300, 0)]]

\* the condition under which the render pushes the alert of a parameter
IsAlert(id, d, th) ==
    CASE id = "ph" -> d.ph < th.ph.min \/ d.ph > th.ph.max
      [] id = "temperature" ->
             d.temperature < th.temperature.min \/ d.temperature > th.temperature.max
      [] id = "turbidity" -> d.turbidity > th.turbidity.max
      [] id = "tds" -> d.tds > th.tds.max

\* the status the render gives the alert of a parameter
AlertStatus(id, d) ==
    LET critical ==
            CASE id = "ph" -> d.ph < Dec(6, 0) \/ d.ph > Dec(9, 0)
              [] id = "temperature" ->
                     d.temperature < Dec(10, 0) \/ d.temperature > Dec(35, 0)
              [] id = "turbidity" -> d.turbidity > Dec(10, 0)
              [] id = "tds" -> d.tds > Dec(1000, 0)
    IN  IF critical THEN "critical" ELSE "warning"

\* the alerts array a render builds from the sensorData prop and the thresholds
AlertsOf(d, th) ==
    LET ids == SelectSeq(ParamOrder, LAMBDA id : IsAlert(id, d, th))
    IN  [i \in 1..Len(ids) |-> [id |-> ids[i], status |-> AlertStatus(ids[i], d)]]

\* alerts.map(a => a.id)
AlertIds(alerts) == [i \in 1..Len(alerts) |-> alerts[i].id]

\* the ids of a list, as a set
IdSet(ids) == {ids[i] : i \in 1..Len(ids)}

\* the ids of the alerts a render of the panel p shows
ActiveIds(p) == IdSet(AlertIds(AlertsOf(p.sensorData, p.thresholds)))

\* generateSensorData() at Math.random() = 0.5 in every field
NominalReading ==
    [ph |-> Dec(7, 2), temperature |-> Dec(24, 0), tds |-> Dec(450, 0),
     turbidity |-> Dec(5, 0)]

\* readings generateSensorData() returns: pH in 6.8..7.6, turbidity in 3..7
SensorReadings ==
    {[NominalReading EXCEPT !.ph = ph, !.turbidity = turbidity] :
        ph \in {Dec(6, 8), Dec(7, 6)}, turbidity \in {Dec(3, 1), Dec(6, 9)}}

\* the fields the panel renders a ThresholdValue for
ThresholdFields ==
    {<<"ph", "min">>, <<"ph", "max">>, <<"temperature", "min">>,
     <<"temperature", "max">>, <<"turbidity", "max">>, <<"tds", "max">>}

\* a valid floating-point number: an optional minus, then digits, digits
\* with a point and digits, or a point and digits
IsValidNumber(s) ==
    LET body == IF Len(s) > 0 /\ s[1] = "-" THEN Tail(s) ELSE s
        ni == DigitPrefixLen(body)
        rest == SubSeq(body, ni + 1, Len(body))
    IN  \/ ni > 0 /\ rest = <<>>
        \/ /\ Len(rest) >= 2
           /\ rest[1] = "."
           /\ DigitPrefixLen(Tail(rest)) = Len(rest) - 1

\* what the user types into a threshold input
TypedTexts == {<<"7">>, <<"7", ".", "5">>, <<"-", "7">>, <<"-">>}

\* e.target.value of the input type="number": the typed text when it is a
\* valid number, the empty string otherwise
ValueOf(text) == IF IsValidNumber(text) THEN text ELSE <<>>

TypedValues == {ValueOf(text) : text \in TypedTexts}

\* the toast effect: a toast for every alert whose id previousAlerts lacks,
\* then setPreviousAlerts(currentAlertIds)
ToastEffect(p) ==
    LET alerts == AlertsOf(p.sensorData, p.thresholds)
        fresh == {i \in 1..Len(alerts) : alerts[i].id \notin IdSet(p.previousAlerts)}
    IN  [p EXCEPT !.toasted = {alerts[i] : i \in fresh},
                  !.previousAlerts = AlertIds(alerts)]

\* the panel after construction, its first render and its effects: the
\* thresholds are stored and the toast effect has run on previousAlerts = []
MountedPanel(d) ==
    LET p == ToastEffect(
                 [sensorData |-> d, thresholds |-> DefaultThresholds,
                  stored |-> DefaultThresholds, editingField |-> <<>>,
                  tempValue |-> <<>>, previousAlerts |-> <<>>, toasted |-> {},
                  event |-> "mount", saves |-> 0,
                  atUpdate |-> {}, beforeUpdate |-> {}])
    IN  [p EXCEPT !.atUpdate = ActiveIds(p)]

\* a toast effect whose dependency list is [alerts.length] alone
Rerender_lengthOnly(p, q, newSensorData) ==
    LET r == [q EXCEPT !.stored = q.thresholds]
        ran == Len(AlertsOf(q.sensorData, q.thresholds))
                   # Len(AlertsOf(p.sensorData, p.thresholds))
    IN  IF ran THEN ToastEffect(r) ELSE [r EXCEPT !.toasted = {}]

\* the render that follows a state or prop change from p to q, and its
\* effects: the thresholds are stored, and the toast effect runs when
\* alerts.length differs or sensorData is a new object
Rerender(p, q, newSensorData) ==
    LET r == [q EXCEPT !.stored = q.thresholds]
        ran == \/ newSensorData
               \/ Len(AlertsOf(q.sensorData, q.thresholds))
                      # Len(AlertsOf(p.sensorData, p.thresholds))
    IN  IF ran THEN ToastEffect(r) ELSE [r EXCEPT !.toasted = {}]

\* App passes a new sensorData object to the panel
SensorUpdate(p, d) ==
    LET r == Rerender(p, [p EXCEPT !.sensorData = d, !.event = "update",
                                   !.beforeUpdate = p.atUpdate], TRUE)
    IN  [r EXCEPT !.atUpdate = ActiveIds(r)]

\* handleEdit(fieldKey, value), from the span of a field that is not edited
handleEdit(p, f) ==
    Rerender(p, [p EXCEPT !.editingField = f,
                          !.tempValue = numberToString(p.thresholds[f[1]][f[2]]),
                          !.event = "edit"], FALSE)

\* onChange of the input: setTempValue(e.target.value)
onChange(p, s) ==
    Rerender(p, [p EXCEPT !.tempValue = s, !.event = "change"], FALSE)

\* handleSave without the check of numValue
handleSave_unchecked(p, param, field) ==
    LET numValue == parseFloat(p.tempValue)
    IN  Rerender(p, [p EXCEPT !.thresholds[param][field] = numValue.value,
                              !.editingField = <<>>,
                              !.tempValue = <<>>,
                              !.event = "save",
                              !.saves = @ + 1], FALSE)

\* handleSave(param, field)
handleSave(p, param, field) ==
    LET numValue == parseFloat(p.tempValue)
        valid == ~isNaN(numValue) /\ numValue.value >= 0
    IN  Rerender(p, [p EXCEPT !.thresholds[param][field] =
                                  IF valid THEN numValue.value ELSE @,
                              !.editingField = <<>>,
                              !.tempValue = <<>>,
                              !.event = "save",
                              !.saves = @ + 1], FALSE)

\* the keys a user presses in the input
Keys == {"Enter", "Escape", "Tab"}

\* handleKeyDown(e, param, field)
handleKeyDown(p, key, param, field) ==
    IF key = "Enter" THEN handleSave(p, param, field)
    ELSE IF key = "Escape"
         THEN Rerender(p, [p EXCEPT !.editingField = <<>>, !.tempValue = <<>>,
                                    !.event = "escape"], FALSE)
         ELSE p

----------------------------------------------------------------------------
(* App.tsx: state outside the mission handlers *)

\* nothing was delivered, no cleanup was called; lastUpdate is new Date()
MountedStream ==
    [timer |-> "active", delivered |-> <<>>, cleanups |-> 0, atCleanup |-> 0,
     sensorTimer |-> "active", lastUpdate |-> 0]

\* App state and service state outside the mission handlers, after the first render
RestInit ==
    /\ sendClicks = 0
    /\ reads = <<>>
    /\ svc = <<>>
    /\ vehicle = VehicleSilent
    /\ bridge = IdleBridge
    /\ vehiclePosition = <<>>
    /\ trail = <<>>
    /\ stream = MountedStream
    /\ clickHandler = FALSE
    /\ panel = MountedPanel(NominalReading)

\* MapView's click-handler effect that registers only while the mode is on:
\* if (!addWaypointMode) return; before off("click") and on("click", ...)
RegisterClickHandler_whenOn ==
    clickHandler' = IF addWaypointMode' THEN TRUE ELSE clickHandler

\* MapView's click-handler effect after a render: off("click"), then
\* on("click", ...) with a handler that closes over the rendered addWaypointMode
RegisterClickHandler == clickHandler' = addWaypointMode'

----------------------------------------------------------------------------
(* App.tsx: state after the first render, and the mission handlers *)

Init ==
    LET ce == createEmptyMission(EmptyHeap, 0)
    IN  /\ heap = ce.heap
        /\ mission = ce.ret
        /\ addWaypointMode = FALSE
        /\ missionLog = <<>>
        /\ lastToast = <<>>
        /\ now = 0
        /\ call = CallOf("createEmptyMission", 0, 0, 0, 0, 0, ce.ret, EmptyHeap)
        /\ converted = <<>>
        /\ added = <<>>
        /\ ncalls = 0
        /\ RestInit

\* the "Add Waypoint" button: setAddWaypointMode(!addWaypointMode)
ToggleAddWaypointMode ==
    /\ addWaypointMode' = ~addWaypointMode
    /\ UNCHANGED <<heap, mission, missionLog, lastToast, now, call, converted, added, ncalls>>
    /\ RegisterClickHandler
    /\ UNCHANGED <<sendClicks, reads, serviceVars, panel, bridge, telemetryVars>>

\* handleAddWaypoint(position)
handleAddWaypoint(position) ==
    LET r == addWaypointToMission(heap, mission, position[1], position[2], now)
    IN  /\ heap' = r.heap
        /\ mission' = r.ret
        /\ addWaypointMode' = FALSE
        /\ lastToast' = <<"Waypoint ", Len(WaypointsOf(heap, mission)) + 1, " added">>
        /\ call' = CallOf("addWaypointToMission", mission, 0, position[1],
                          position[2], now, r.ret, heap)
        /\ added' = Append(added, position)
        /\ UNCHANGED <<missionLog, now, converted, ncalls>>
        /\ RegisterClickHandler
        /\ UNCHANGED <<sendClicks, reads, serviceVars, panel, bridge, telemetryVars>>

\* the map's click handler: a click adds a waypoint while the mode is on
MapClick(position) ==
    /\ clickHandler
    /\ Len(WaypointsOf(heap, mission)) < MaxWaypoints
    /\ Len(heap.missions) < MaxMissions
    /\ handleAddWaypoint(position)

\* handleClearWaypoints that empties the held waypoint array:
\* mission.waypoints.length = 0; setMission({ ...mission })
handleClearWaypoints_inPlace ==
    /\ heap' = [heap EXCEPT
                  !.arrays[heap.missions[mission].waypoints] = <<>>,
                  !.missions = Append(@, heap.missions[mission])]
    /\ mission' = Len(heap.missions) + 1
    /\ lastToast' = <<"Waypoints cleared">>
    /\ call' = CallOf("createEmptyMission", 0, 0, 0, 0, now, Len(heap.missions) + 1, heap)
    /\ added' = <<>>
    /\ UNCHANGED <<addWaypointMode, missionLog, now, converted, ncalls>>
    /\ RegisterClickHandler
    /\ UNCHANGED <<sendClicks, reads, serviceVars, panel, bridge, telemetryVars>>

\* handleClearWaypoints that removes the last waypoint only:
\* setMission({ ...mission, waypoints: mission.waypoints.slice(0, -1) })
handleClearWaypoints_dropLast ==
    LET arr == heap.arrays[heap.missions[mission].waypoints]
    IN  /\ heap' = [heap EXCEPT
                      !.arrays = Append(@, SubSeq(arr, 1, Len(arr) - 1)),
                      !.missions = Append(@, [heap.missions[mission] EXCEPT
                                                !.waypoints = Len(heap.arrays) + 1])]
        /\ mission' = Len(heap.missions) + 1
        /\ lastToast' = <<"Waypoints cleared">>
        /\ call' = CallOf("createEmptyMission", 0, 0, 0, 0, now, Len(heap.missions) + 1, heap)
        /\ added' = <<>>
        /\ UNCHANGED <<addWaypointMode, missionLog, now, converted, ncalls>>
        /\ RegisterClickHandler
        /\ UNCHANGED <<sendClicks, reads, serviceVars, panel, bridge, telemetryVars>>

\* handleClearWaypoints()
handleClearWaypoints ==
    LET r == createEmptyMission(heap, now)
    IN  /\ heap' = r.heap
        /\ mission' = r.ret
        /\ lastToast' = <<"Waypoints cleared">>
        /\ call' = CallOf("createEmptyMission", 0, 0, 0, 0, now, r.ret, heap)
        /\ added' = <<>>
        /\ UNCHANGED <<addWaypointMode, missionLog, now, converted, ncalls>>
        /\ RegisterClickHandler
        /\ UNCHANGED <<sendClicks, reads, serviceVars, panel, bridge, telemetryVars>>

\* the "Clear" button, disabled while the mission has no waypoint
ClearButton ==
    /\ Len(WaypointsOf(heap, mission)) # 0
    /\ Len(heap.missions) < MaxMissions
    /\ handleClearWaypoints

\* handleSendWaypoints that sends a rejected mission once more by itself
handleSendWaypoints_retry(r1, r2) ==
    LET n == Len(WaypointsOf(heap, mission))
        missionEntry ==
            [id |-> toDecimalString(now),
             timestamp |-> toLocaleString(now),
             mission |-> mission,
             waypointCount |-> n,
             status |-> IF r1 THEN "Accepted" ELSE "Rejected",
             message |-> IF r2
                 THEN <<"Mission accepted. USV will navigate to ", n,
                        IF n # 1 THEN " waypoints." ELSE " waypoint.">>
                 ELSE <<"Mission rejected. Waypoint path exceeds safe navigation parameters.">>]
    IN  IF n > 0
        THEN /\ missionLog' = IF r1 THEN <<missionEntry>> \o missionLog
                              ELSE <<[missionEntry EXCEPT !.status = "Accepted"],
                                     missionEntry>> \o missionLog
             /\ lastToast' = <<n, " waypoints sent to USV via Pixhawk">>
             /\ UNCHANGED <<heap, mission, addWaypointMode, now, call, converted, added, ncalls>>
             /\ reads' = Append(reads, [kind |-> "mission", addr |-> mission,
                                         value |-> MissionValue(heap, mission)])
             /\ RegisterClickHandler
             /\ UNCHANGED <<serviceVars, panel, bridge, telemetryVars>>
        ELSE UNCHANGED <<heap, mission, addWaypointMode, missionLog, lastToast, now,
                         call, converted, added, ncalls, reads, serviceVars, panel, clickHandler,
                         bridge, telemetryVars>>

\* handleSendWaypoints without the check for an empty mission
handleSendWaypoints_noGuard(r1, r2) ==
    LET n == Len(WaypointsOf(heap, mission))
        missionEntry ==
            [id |-> toDecimalString(now),
             timestamp |-> toLocaleString(now),
             mission |-> mission,
             waypointCount |-> n,
             status |-> IF r1 THEN "Accepted" ELSE "Rejected",
             message |-> IF r2
                 THEN <<"Mission accepted. USV will navigate to ", n,
                        IF n # 1 THEN " waypoints." ELSE " waypoint.">>
                 ELSE <<"Mission rejected. Waypoint path exceeds safe navigation parameters.">>]
    IN  /\ missionLog' = <<missionEntry>> \o missionLog
        /\ lastToast' = <<n, " waypoints sent to USV via Pixhawk">>
        /\ UNCHANGED <<heap, mission, addWaypointMode, now, call, converted, added, ncalls>>
        /\ reads' = Append(reads, [kind |-> "mission", addr |-> mission,
                                    value |-> MissionValue(heap, mission)])
        /\ RegisterClickHandler
        /\ UNCHANGED <<serviceVars, panel, bridge, telemetryVars>>

\* handleSendWaypoints(); r1 and r2 are the outcomes of the two
\* Math.random() > 0.2 draws
handleSendWaypoints(r1, r2) ==
    LET n == Len(WaypointsOf(heap, mission))
        missionEntry ==
            [id |-> toDecimalString(now),
             timestamp |-> toLocaleString(now),
             mission |-> mission,
             waypointCount |-> n,
             status |-> IF r1 THEN "Accepted" ELSE "Rejected",
             message |-> IF r2
                 THEN <<"Mission accepted. USV will navigate to ", n,
                        IF n # 1 THEN " waypoints." ELSE " waypoint.">>
                 ELSE <<"Mission rejected. Waypoint path exceeds safe navigation parameters.">>]
    IN  IF n > 0
        THEN /\ missionLog' = <<missionEntry>> \o missionLog
             /\ lastToast' = <<n, " waypoints sent to USV via Pixhawk">>
             /\ UNCHANGED <<heap, mission, addWaypointMode, now, call, converted, added, ncalls>>
             /\ reads' = Append(reads, [kind |-> "mission", addr |-> mission,
                                         value |-> MissionValue(heap, mission)])
             /\ RegisterClickHandler
             /\ UNCHANGED <<serviceVars, panel, bridge, telemetryVars>>
        ELSE UNCHANGED <<heap, mission, addWaypointMode, missionLog, lastToast, now,
                         call, converted, added, ncalls, reads, serviceVars, panel, clickHandler,
                         bridge, telemetryVars>>

\* the "Send to USV" button, disabled while the mission has no waypoint
SendButton ==
    /\ Len(WaypointsOf(heap, mission)) # 0
    /\ Len(missionLog) < MaxLog
    /\ \E r1 \in BOOLEAN, r2 \in BOOLEAN : handleSendWaypoints(r1, r2)
    /\ sendClicks' = sendClicks + 1

\* a caller converts the held mission for upload
ConvertForUpload ==
    LET r == missionToMavlinkFormat(heap, mission)
    IN  /\ Len(heap.arrays) < MaxArrays
        /\ heap' = r.heap
        /\ call' = CallOf("missionToMavlinkFormat", mission, 0, 0, 0, now, r.ret, heap)
        /\ converted' = Append(converted, [arg |-> mission, ret |-> r.ret])
        /\ UNCHANGED <<mission, addWaypointMode, missionLog, lastToast, now, added, ncalls>>
        /\ reads' = Append(reads, [kind |-> "array", addr |-> r.ret,
                                    value |-> ItemsOf(r.heap, r.ret)])
        /\ UNCHANGED <<sendClicks, serviceVars, panel, clickHandler, bridge, telemetryVars>>

\* the wall clock advances
Tick ==
    /\ now < MaxTime
    /\ now' = now + 1
    /\ UNCHANGED <<heap, mission, addWaypointMode, missionLog, lastToast, call, converted, added, ncalls>>
    /\ UNCHANGED <<sendClicks, reads, serviceVars, panel, clickHandler, bridge, telemetryVars>>

Next ==
    \/ ToggleAddWaypointMode
    \/ \E position \in Positions : MapClick(position)
    \/ ClearButton
    \/ SendButton
    \/ ConvertForUpload
    \/ Tick

Spec == Init /\ [][Next]_vars

----------------------------------------------------------------------------
(* Harness for the functions of mission.ts on their own: the input is any *)
(* mission value a caller can build, well-formed or not, and each step    *)
(* applies one function to it.                                             *)

\* waypoint objects a caller can hold: created by createWaypoint and then
\* edited (command, params, frame), with either value of current
WaypointInputs ==
    { [seq |-> v[1], frame |-> v[3], command |-> v[4], current |-> c,
       autocontinue |-> v[5], param1 |-> v[6], param2 |-> v[7], param3 |-> v[8],
       param4 |-> v[9], x |-> v[2][1], y |-> v[2][2], z |-> v[10]] :
      c \in BOOLEAN,
      v \in { <<0, <<15, 73>>, MAV_FRAME_GLOBAL_RELATIVE_ALT, MAV_CMD_NAV_WAYPOINT,
                TRUE, 0, 2, 0, 0, 0>>,
              <<1, <<-91, 181>>, MAV_FRAME_GLOBAL_RELATIVE_ALT, MAV_CMD_NAV_WAYPOINT,
                TRUE, 0, 2, 0, 0, 0>>,
              <<1, <<15, 73>>, MAV_FRAME_GLOBAL, MAV_CMD_NAV_LOITER_TIME,
                FALSE, 30, 5, 1, 90, 4>>,
              <<0, <<-91, 181>>, MAV_FRAME_GLOBAL, MAV_CMD_NAV_LOITER_TIME,
                FALSE, 30, 5, 1, 90, 4>> } }

\* metadata and currentWaypointIndex of an input mission
MissionInputs ==
    { [name |-> "USV Mission", createdAt |-> toISOString(0),
       updatedAt |-> toISOString(0), currentWaypointIndex |-> 0],
      [name |-> "Survey", createdAt |-> toISOString(0),
       updatedAt |-> toISOString(1), currentWaypointIndex |-> 1] }

\* waypoint lists of at most n waypoints
RECURSIVE WaypointLists(_)
WaypointLists(n) ==
    IF n = 0 THEN { <<>> }
    ELSE LET shorter == WaypointLists(n - 1)
         IN  shorter \cup { Append(l, w) : l \in { k \in shorter : Len(k) = n - 1 },
                                           w \in WaypointInputs }

FnInit ==
    /\ \E wl \in WaypointLists(MaxLen), mi \in MissionInputs :
         heap = [wps |-> wl,
                 arrays |-> << [i \in 1..Len(wl) |-> i] >>,
                 metas |-> << [name |-> mi.name, createdAt |-> mi.createdAt,
                               updatedAt |-> mi.updatedAt] >>,
                 missions |-> << [waypoints |-> 1,
                                  currentWaypointIndex |-> mi.currentWaypointIndex,
                                  metadata |-> 1] >>]
    /\ mission = 1
    /\ now \in 0..MaxTime
    /\ call = NoCall
    /\ ncalls = 0
    /\ addWaypointMode = FALSE
    /\ missionLog = <<>>
    /\ lastToast = <<>>
    /\ converted = <<>>
    /\ added = <<>>
    /\ RestInit

FnCreateEmptyMission ==
    LET r == createEmptyMission(heap, now)
    IN  /\ ncalls < MaxCalls
        /\ heap' = r.heap
        /\ call' = CallOf("createEmptyMission", 0, 0, 0, 0, now, r.ret, heap)
        /\ ncalls' = ncalls + 1
        /\ UNCHANGED <<mission, addWaypointMode, missionLog, lastToast, now, converted, added>>
        /\ UNCHANGED <<sendClicks, reads, serviceVars, panel, clickHandler, bridge, telemetryVars>>

FnCreateWaypoint(seq, lat, lon) ==
    LET r == createWaypoint(heap, seq, lat, lon)
    IN  /\ ncalls < MaxCalls
        /\ heap' = r.heap
        /\ call' = CallOf("createWaypoint", 0, seq, lat, lon, now, r.ret, heap)
        /\ ncalls' = ncalls + 1
        /\ UNCHANGED <<mission, addWaypointMode, missionLog, lastToast, now, converted, added>>
        /\ UNCHANGED <<sendClicks, reads, serviceVars, panel, clickHandler, bridge, telemetryVars>>

FnAddWaypointToMission(lat, lon) ==
    LET r == addWaypointToMission(heap, mission, lat, lon, now)
    IN  /\ ncalls < MaxCalls
        /\ heap' = r.heap
        /\ call' = CallOf("addWaypointToMission", mission, 0, lat, lon, now, r.ret, heap)
        /\ ncalls' = ncalls + 1
        /\ UNCHANGED <<mission, addWaypointMode, missionLog, lastToast, now, converted, added>>
        /\ UNCHANGED <<sendClicks, reads, serviceVars, panel, clickHandler, bridge, telemetryVars>>

FnMissionToMavlinkFormat ==
    LET r == missionToMavlinkFormat(heap, mission)
    IN  /\ ncalls < MaxCalls
        /\ heap' = r.heap
        /\ call' = CallOf("missionToMavlinkFormat", mission, 0, 0, 0, now, r.ret, heap)
        /\ converted' = Append(converted, [arg |-> mission, ret |-> r.ret])
        /\ ncalls' = ncalls + 1
        /\ UNCHANGED <<mission, addWaypointMode, missionLog, lastToast, now, added>>
        /\ UNCHANGED <<sendClicks, reads, serviceVars, panel, clickHandler, bridge, telemetryVars>>

FnNext ==
    \/ FnCreateEmptyMission
    \/ \E seq \in SeqInputs, p \in Positions : FnCreateWaypoint(seq, p[1], p[2])
    \/ \E p \in Positions : FnAddWaypointToMission(p[1], p[2])
    \/ FnMissionToMavlinkFormat

FnSpec == FnInit /\ [][FnNext]_vars

----------------------------------------------------------------------------
(* services/mavlink.ts: MockMavLinkService, the only implementation of a   *)
(* mission upload in the sources, called on missions the frontend can hold. *)

\* lists of at most n map positions
RECURSIVE PositionLists(_)
PositionLists(n) ==
    IF n = 0 THEN { <<>> }
    ELSE LET shorter == PositionLists(n - 1)
         IN  shorter \cup { Append(l, p) : l \in { k \in shorter : Len(k) = n - 1 },
                                           p \in Positions }

\* the heap and the held mission after createEmptyMission() and one
\* handleAddWaypoint per position of ps
RECURSIVE BuildMission(_)
BuildMission(ps) ==
    IF ps = <<>> THEN createEmptyMission(EmptyHeap, 0)
    ELSE LET b == BuildMission(SubSeq(ps, 1, Len(ps) - 1))
         IN  addWaypointToMission(b.heap, b.ret, ps[Len(ps)][1], ps[Len(ps)][2], 0)

\* MAVLink error codes a vehicle can answer a mission upload with
RejectionCodes == { 1, 4 }

\* what the vehicle would answer: nothing, MISSION_ACK accepted, or an error code
VehicleReplies ==
    { VehicleSilent, [kind |-> "accept", code |-> 0] }
        \cup { [kind |-> "reject", code |-> c] : c \in RejectionCodes }

\* connection strings a caller passes to connect()
ConnectionStrings == { "udp:127.0.0.1:14550", "" }

\* new Error('MAVLink service not implemented')
NotImplemented == "MAVLink service not implemented"

\* one call of a service method and how it ended
ServiceCall(method, arg, outcome, result, error) ==
    [method |-> method, arg |-> arg, vehicle |-> vehicle, outcome |-> outcome,
     result |-> result, error |-> error]

ServiceInit ==
    /\ \E ps \in PositionLists(MaxWaypoints) :
         LET b == BuildMission(ps)
         IN  /\ heap = b.heap
             /\ mission = b.ret
             /\ added = ps
    /\ vehicle \in VehicleReplies
    /\ svc = <<>>
    /\ addWaypointMode = FALSE
    /\ missionLog = <<>>
    /\ lastToast = <<>>
    /\ now = 0
    /\ call = NoCall
    /\ converted = <<>>
    /\ ncalls = 0
    /\ sendClicks = 0
    /\ reads = <<>>
    /\ bridge = IdleBridge
    /\ vehiclePosition = <<>>
    /\ trail = <<>>
    /\ stream = MountedStream
    /\ clickHandler = FALSE
    /\ panel = MountedPanel(NominalReading)

\* a service method was called: only the record of calls changes
ServiceStep(entry) ==
    /\ svc' = Append(svc, entry)
    /\ UNCHANGED <<heap, mission, addWaypointMode, missionLog, lastToast, now,
                   call, converted, added, ncalls, sendClicks, reads, vehicle, clickHandler, panel,
                   bridge, telemetryVars>>

\* async uploadMission(_mission): the promise rejects
MockUploadMission ==
    /\ Len(svc) < MaxServiceCalls
    /\ ServiceStep(ServiceCall("uploadMission", mission, "rejected", <<>>, NotImplemented))

\* async fetchMission(): the promise rejects
MockFetchMission ==
    /\ Len(svc) < MaxServiceCalls
    /\ ServiceStep(ServiceCall("fetchMission", 0, "rejected", <<>>, NotImplemented))

\* subscribeToVehiclePosition(_callback): throws
MockSubscribeToVehiclePosition ==
    /\ Len(svc) < MaxServiceCalls
    /\ ServiceStep(ServiceCall("subscribeToVehiclePosition", 0, "threw", <<>>, NotImplemented))

\* isConnected(): false
MockIsConnected ==
    /\ Len(svc) < MaxServiceCalls
    /\ ServiceStep(ServiceCall("isConnected", 0, "returned", <<FALSE>>, ""))

\* async connect(_connectionString): the promise rejects
MockConnect(connectionString) ==
    /\ Len(svc) < MaxServiceCalls
    /\ ServiceStep(ServiceCall("connect", connectionString, "rejected", <<>>, NotImplemented))

\* disconnect(): no-op
MockDisconnect ==
    /\ Len(svc) < MaxServiceCalls
    /\ ServiceStep(ServiceCall("disconnect", 0, "returned", <<>>, ""))

ServiceNext ==
    \/ MockUploadMission
    \/ MockFetchMission
    \/ MockSubscribeToVehiclePosition
    \/ MockIsConnected
    \/ \E connectionString \in ConnectionStrings : MockConnect(connectionString)
    \/ MockDisconnect

ServiceSpec == ServiceInit /\ [][ServiceNext]_vars

----------------------------------------------------------------------------
(* A bridge service behind IBridgeService.uploadMission.  The sources hold  *)
(* the interface and its documentation only; the upload state machine       *)
(* Idle -> Uploading -> {Accepted, Rejected, TimedOut} and the message      *)
(* sequence are taken from the bridge contract.  The items are the array    *)
(* missionToMavlinkFormat returns for the requested mission.                *)

\* a MAVLink message the bridge sends to the vehicle
Message(type, count, item) == [type |-> type, count |-> count, item |-> item]

\* number of waypoints of the mission being uploaded, 0 before any request
RequestCount ==
    IF bridge.state = "Idle" THEN 0 ELSE Len(WaypointsOf(heap, bridge.mission))

\* the MISSION_ITEM_INT messages sent so far
ItemsSent == SelectSeq(bridge.sent, LAMBDA msg : msg.type = "MISSION_ITEM_INT")

\* MISSION_SET_CURRENT has been sent
SetCurrentSent == \E i \in 1..Len(bridge.sent) : bridge.sent[i].type = "MISSION_SET_CURRENT"

\* the states in which one upload has ended
TerminalStates == { "Accepted", "Rejected", "TimedOut" }

\* MissionUploadResult values
UploadResult(success, acceptedWaypointCount, errorCode, errorMessage) ==
    [success |-> success, acceptedWaypointCount |-> acceptedWaypointCount,
     errorCode |-> errorCode, errorMessage |-> errorMessage,
     timestamp |-> toISOString(now)]

UploadInit ==
    /\ \E ps \in PositionLists(MaxWaypoints) \ { <<>> } :
         LET b == BuildMission(ps)
         IN  /\ heap = b.heap
             /\ mission = b.ret
             /\ added = ps
    /\ vehicle \in VehicleReplies
    /\ svc = <<>>
    /\ addWaypointMode = FALSE
    /\ missionLog = <<>>
    /\ lastToast = <<>>
    /\ now = 0
    /\ call = NoCall
    /\ converted = <<>>
    /\ ncalls = 0
    /\ sendClicks = 0
    /\ reads = <<>>
    /\ bridge = IdleBridge
    /\ vehiclePosition = <<>>
    /\ trail = <<>>
    /\ stream = MountedStream
    /\ clickHandler = FALSE
    /\ panel = MountedPanel(NominalReading)

\* a step of the bridge or of the vehicle: only the upload changes
BridgeStep(b) ==
    /\ bridge' = b
    /\ UNCHANGED <<heap, mission, addWaypointMode, missionLog, lastToast, now,
                   call, converted, added, ncalls, sendClicks, reads,
                   serviceVars, panel, clickHandler, telemetryVars>>

\* uploadMission({mission, setAsCurrent}): Idle or a finished upload -> Uploading
BridgeUploadMission(setAsCurrent) ==
    LET r == missionToMavlinkFormat(heap, mission)
    IN  /\ bridge.state \in { "Idle" } \cup TerminalStates
        /\ bridge.calls < MaxUploads
        /\ heap' = r.heap
        /\ call' = CallOf("missionToMavlinkFormat", mission, 0, 0, 0, now, r.ret, heap)
        /\ converted' = Append(converted, [arg |-> mission, ret |-> r.ret])
        /\ bridge' = [IdleBridge EXCEPT !.state = "Uploading",
                                        !.mission = mission,
                                        !.setAsCurrent = setAsCurrent,
                                        !.items = r.ret,
                                        !.calls = bridge.calls + 1]
        /\ UNCHANGED <<mission, addWaypointMode, missionLog, lastToast, now,
                       added, ncalls, sendClicks, reads, serviceVars, panel, clickHandler, telemetryVars>>

\* 1. MISSION_CLEAR_ALL
BridgeSendClearAll ==
    /\ bridge.state = "Uploading"
    /\ ~bridge.timedOut
    /\ bridge.sent = <<>>
    /\ BridgeStep([bridge EXCEPT !.sent = <<Message("MISSION_CLEAR_ALL", 0, <<>>)>>])

\* 2. MISSION_COUNT
BridgeSendCount ==
    /\ bridge.state = "Uploading"
    /\ ~bridge.timedOut
    /\ Len(bridge.sent) = 1
    /\ BridgeStep([bridge EXCEPT
                     !.sent = Append(@, Message("MISSION_COUNT", RequestCount, <<>>))])

\* 3. MISSION_ITEM_INT, the next item of the converted array
BridgeSendItem ==
    /\ bridge.state = "Uploading"
    /\ ~bridge.timedOut
    /\ bridge.ack.kind = "none"
    /\ Len(bridge.sent) >= 2
    /\ Len(ItemsSent) < Len(ItemsOf(heap, bridge.items))
    /\ BridgeStep([bridge EXCEPT
                     !.sent = Append(@, Message("MISSION_ITEM_INT", 0,
                                 <<ItemsOf(heap, bridge.items)[Len(ItemsSent) + 1]>>))])

\* the vehicle acknowledges one more of the items it was sent
VehicleAcknowledgeItem ==
    /\ bridge.state = "Uploading"
    /\ ~bridge.timedOut
    /\ bridge.ack.kind = "none"
    /\ bridge.received < Len(ItemsSent)
    /\ BridgeStep([bridge EXCEPT !.received = @ + 1])

\* the vehicle's terminal acknowledgment: positive once it holds every item,
\* negative at any point after the count
VehicleAck ==
    /\ bridge.state = "Uploading"
    /\ ~bridge.timedOut
    /\ bridge.ack.kind = "none"
    /\ \/ /\ vehicle.kind = "accept"
          /\ Len(bridge.sent) >= 2
          /\ bridge.received = RequestCount
       \/ /\ vehicle.kind = "reject"
          /\ Len(bridge.sent) >= 2
    /\ BridgeStep([bridge EXCEPT !.ack = vehicle])

\* 4. MISSION_SET_CURRENT (seq=0), when the request asks for it
BridgeSendSetCurrent ==
    /\ bridge.state = "Uploading"
    /\ ~bridge.timedOut
    /\ bridge.ack.kind = "accept"
    /\ bridge.setAsCurrent
    /\ ~SetCurrentSent
    /\ BridgeStep([bridge EXCEPT
                     !.sent = Append(@, Message("MISSION_SET_CURRENT", 0, <<>>))])

\* BridgeTimeout with a deadline that starts at the first acknowledged item
BridgeTimeout_afterFirstAck ==
    /\ bridge.state = "Uploading"
    /\ bridge.ack.kind = "none"
    /\ ~bridge.timedOut
    /\ bridge.received > 0
    /\ BridgeStep([bridge EXCEPT !.timedOut = TRUE])

\* the bridge's deadline passes with no terminal acknowledgment
BridgeTimeout ==
    /\ bridge.state = "Uploading"
    /\ bridge.ack.kind = "none"
    /\ ~bridge.timedOut
    /\ BridgeStep([bridge EXCEPT !.timedOut = TRUE])

\* BridgeResolve that takes the first acknowledged item for the acknowledgment
BridgeResolve_partial ==
    /\ bridge.state = "Uploading"
    /\ \/ bridge.timedOut
       \/ bridge.ack.kind = "reject"
       \/ bridge.received > 0
    /\ BridgeStep(
         IF bridge.ack.kind = "reject"
         THEN [bridge EXCEPT !.state = "Rejected",
                 !.result = <<UploadResult(FALSE, 0, <<bridge.ack.code>>,
                                           <<"Mission rejected by vehicle">>)>>]
         ELSE IF bridge.timedOut
         THEN [bridge EXCEPT !.state = "TimedOut",
                 !.result = <<UploadResult(FALSE, 0, <<-1>>, <<"Mission upload timed out">>)>>]
         ELSE [bridge EXCEPT !.state = "Accepted",
                 !.result = <<UploadResult(TRUE, bridge.received, <<>>, <<>>)>>])

\* the promise resolves: after the terminal acknowledgment (and the
\* set-current the request asked for) or after the timeout
BridgeResolve ==
    /\ bridge.state = "Uploading"
    /\ \/ bridge.timedOut
       \/ bridge.ack.kind = "reject"
       \/ /\ bridge.ack.kind = "accept"
          /\ bridge.received = RequestCount
          /\ bridge.setAsCurrent => SetCurrentSent
    /\ BridgeStep(
         IF bridge.ack.kind = "reject"
         THEN [bridge EXCEPT !.state = "Rejected",
                 !.result = <<UploadResult(FALSE, 0, <<bridge.ack.code>>,
                                           <<"Mission rejected by vehicle">>)>>]
         ELSE IF bridge.timedOut
         THEN [bridge EXCEPT !.state = "TimedOut",
                 !.result = <<UploadResult(FALSE, 0, <<-1>>, <<"Mission upload timed out">>)>>]
         ELSE [bridge EXCEPT !.state = "Accepted",
                 !.result = <<UploadResult(TRUE, bridge.received, <<>>, <<>>)>>])

UploadNext ==
    \/ \E setAsCurrent \in BOOLEAN : BridgeUploadMission(setAsCurrent)
    \/ BridgeSendClearAll
    \/ BridgeSendCount
    \/ BridgeSendItem
    \/ VehicleAcknowledgeItem
    \/ VehicleAck
    \/ BridgeSendSetCurrent
    \/ BridgeTimeout
    \/ BridgeResolve

UploadSpec == UploadInit /\ [][UploadNext]_vars

\* the bridge keeps running: its sends, its deadline and its resolution are
\* not postponed forever; the vehicle and the caller owe nothing
FairUploadSpec ==
    /\ UploadSpec
    /\ WF_vars(BridgeSendClearAll)
    /\ WF_vars(BridgeSendCount)
    /\ WF_vars(BridgeSendItem)
    /\ WF_vars(BridgeSendSetCurrent)
    /\ WF_vars(BridgeTimeout)
    /\ WF_vars(BridgeResolve)

----------------------------------------------------------------------------
(* App.tsx: the telemetry effects.  The position effect creates an interval *)
(* whose callback builds a simulated VehiclePosition stamped with the       *)
(* current time and hands it to handlePositionUpdate; the effect's cleanup  *)
(* clears the interval.  The sensor effect runs a second interval.          *)

\* simulated positions around (15.4909, 73.8278), in 1e-4 degrees; heading in
\* degrees, groundspeed in cm/s
SimulatedPositions ==
    { [lat |-> 154904, lon |-> 738273, alt |-> 0, heading |-> 0, groundspeed |-> 150],
      [lat |-> 154913, lon |-> 738282, alt |-> 0, heading |-> 359, groundspeed |-> 199] }

\* LastOf that keeps the oldest points: newTrail.slice(0, 300)
LastOf_first(t, n) == IF Len(t) <= n THEN t ELSE SubSeq(t, 1, n)

\* newTrail.slice(-300)
LastOf(t, n) == IF Len(t) <= n THEN t ELSE SubSeq(t, Len(t) - n + 1, Len(t))

\* handlePositionUpdate(pos): the new values of vehiclePosition and trail
handlePositionUpdate(pos) ==
    /\ vehiclePosition' = <<pos>>
    /\ trail' = LastOf(Append(trail, <<pos.lat, pos.lon>>), TRAIL_CAP)

TelemetryInit == Init

\* PositionInterval stamping the position with the time of the vehicle's
\* message, which may be older than the previous one's
PositionInterval_stale(p) ==
    /\ stream.timer = "active"
    /\ Len(stream.delivered) < MaxDeliveries
    /\ \E age \in 0..now :
         LET simulatedPos == [lat |-> p.lat, lon |-> p.lon, alt |-> p.alt,
                              heading |-> p.heading, groundspeed |-> p.groundspeed,
                              timestamp |-> toISOString(now - age)]
         IN  /\ handlePositionUpdate(simulatedPos)
             /\ stream' = [stream EXCEPT !.delivered = Append(@, simulatedPos.timestamp)]
    /\ UNCHANGED <<heap, mission, addWaypointMode, missionLog, lastToast, now,
                   call, converted, added, ncalls, sendClicks, reads, serviceVars, panel,
                   bridge>>
    /\ RegisterClickHandler

\* PositionInterval that also moves the held mission's currentWaypointIndex
\* to follow the vehicle: mission.currentWaypointIndex = trail.length
PositionInterval_syncIndex(p) ==
    /\ stream.timer = "active"
    /\ Len(stream.delivered) < MaxDeliveries
    /\ LET simulatedPos == [lat |-> p.lat, lon |-> p.lon, alt |-> p.alt,
                            heading |-> p.heading, groundspeed |-> p.groundspeed,
                            timestamp |-> toISOString(now)]
       IN  /\ handlePositionUpdate(simulatedPos)
           /\ stream' = [stream EXCEPT !.delivered = Append(@, simulatedPos.timestamp)]
    /\ heap' = [heap EXCEPT !.missions[mission].currentWaypointIndex = Len(trail) + 1]
    /\ UNCHANGED <<mission, addWaypointMode, missionLog, lastToast, now,
                   call, converted, added, ncalls, sendClicks, reads, serviceVars, panel,
                   bridge>>
    /\ RegisterClickHandler

\* the callback given to setInterval: p holds the Math.random() draws
IntervalCallback(p) ==
    /\ LET simulatedPos == [lat |-> p.lat, lon |-> p.lon, alt |-> p.alt,
                            heading |-> p.heading, groundspeed |-> p.groundspeed,
                            timestamp |-> toISOString(now)]
       IN  /\ handlePositionUpdate(simulatedPos)
           /\ stream' = [stream EXCEPT !.delivered = Append(@, simulatedPos.timestamp)]
    /\ UNCHANGED <<heap, mission, addWaypointMode, missionLog, lastToast, now,
                   call, converted, added, ncalls, sendClicks, reads, serviceVars, panel,
                   bridge>>
    /\ RegisterClickHandler

\* the position interval fires
PositionInterval(p) ==
    /\ stream.timer = "active"
    /\ Len(stream.delivered) < MaxDeliveries
    /\ IntervalCallback(p)

\* PositionCleanup that leaves the interval running
PositionCleanup_leak ==
    /\ stream.cleanups < MaxCleanups
    /\ stream' = [stream EXCEPT
                    !.cleanups = @ + 1,
                    !.atCleanup = IF stream.cleanups = 0 THEN Len(stream.delivered) ELSE @]
    /\ UNCHANGED <<heap, mission, addWaypointMode, missionLog, lastToast, now,
                   call, converted, added, ncalls, sendClicks, reads, serviceVars, panel, clickHandler,
                   bridge, vehiclePosition, trail>>

\* the position effect's cleanup function is called: clearInterval(interval)
PositionCleanup ==
    /\ stream.cleanups < MaxCleanups
    /\ stream' = [stream EXCEPT
                    !.timer = "cleared",
                    !.cleanups = @ + 1,
                    !.atCleanup = IF stream.cleanups = 0 THEN Len(stream.delivered) ELSE @]
    /\ UNCHANGED <<heap, mission, addWaypointMode, missionLog, lastToast, now,
                   call, converted, added, ncalls, sendClicks, reads, serviceVars, panel, clickHandler,
                   bridge, vehiclePosition, trail>>

\* the sensor interval fires: setSensorData(generateSensorData()), which the
\* panel renders, and setLastUpdate(new Date())
SensorInterval ==
    /\ stream.sensorTimer = "active"
    /\ stream' = [stream EXCEPT !.lastUpdate = now]
    /\ \E newData \in SensorReadings : panel' = SensorUpdate(panel, newData)
    /\ UNCHANGED <<heap, mission, addWaypointMode, missionLog, lastToast, now,
                   call, converted, added, ncalls, sendClicks, reads, serviceVars,
                   bridge, vehiclePosition, trail>>
    /\ RegisterClickHandler

\* the sensor effect's cleanup function is called: clearInterval(interval)
SensorCleanup ==
    /\ stream.sensorTimer = "active"
    /\ stream' = [stream EXCEPT !.sensorTimer = "cleared"]
    /\ UNCHANGED <<heap, mission, addWaypointMode, missionLog, lastToast, now,
                   call, converted, added, ncalls, sendClicks, reads, serviceVars, panel, clickHandler,
                   bridge, vehiclePosition, trail>>

TelemetryNext ==
    \/ Tick
    \/ \E p \in SimulatedPositions : PositionInterval(p)
    \/ PositionCleanup
    \/ SensorInterval
    \/ SensorCleanup

TelemetrySpec == TelemetryInit /\ [][TelemetryNext]_vars

----------------------------------------------------------------------------
(* App.tsx: the mission handlers interleaved with position updates *)

\* a position update arrives while the user edits the mission
PositionUpdate(p) ==
    /\ Len(stream.delivered) < MaxUpdates
    /\ PositionInterval(p)

AppNext ==
    \/ ToggleAddWaypointMode
    \/ \E position \in Positions : MapClick(position)
    \/ ClearButton
    \/ SendButton
    \/ ConvertForUpload
    \/ \E p \in SimulatedPositions : PositionUpdate(p)

AppSpec == Init /\ [][AppNext]_vars

----------------------------------------------------------------------------
(* App.tsx: runs of adds and clears alone *)

\* a map click in add-waypoint mode
EditAdd(position) ==
    /\ clickHandler
    /\ Len(WaypointsOf(heap, mission)) < MaxWaypoints
    /\ Len(heap.missions) < MaxEdits
    /\ handleAddWaypoint(position)

\* a click on "Clear", disabled while the mission has no waypoint
EditClear ==
    /\ Len(WaypointsOf(heap, mission)) # 0
    /\ Len(heap.missions) < MaxEdits
    /\ handleClearWaypoints

EditNext ==
    \/ ToggleAddWaypointMode
    \/ \E position \in Positions : EditAdd(position)
    \/ EditClear
    \/ Tick

EditSpec == Init /\ [][EditNext]_vars

----------------------------------------------------------------------------
(* App.tsx: the trail when it is full.  The run starts after the position  *)
(* interval has fired almost TRAIL_CAP times at time 0, drawing the two    *)
(* simulated positions in turn.                                             *)

\* the i-th of the simulated positions drawn in turn
DrawInTurn(i) ==
    CHOOSE p \in SimulatedPositions : (p.heading = 0) <=> (i % 2 = 1)

TrailInit ==
    /\ \E n \in (TRAIL_CAP - 2)..TRAIL_CAP :
         /\ trail = [i \in 1..n |-> <<DrawInTurn(i).lat, DrawInTurn(i).lon>>]
         /\ vehiclePosition =
              << [lat |-> DrawInTurn(n).lat, lon |-> DrawInTurn(n).lon,
                  alt |-> DrawInTurn(n).alt, heading |-> DrawInTurn(n).heading,
                  groundspeed |-> DrawInTurn(n).groundspeed,
                  timestamp |-> toISOString(0)] >>
         /\ stream = [MountedStream EXCEPT !.delivered = [i \in 1..n |-> toISOString(0)]]
    /\ LET ce == createEmptyMission(EmptyHeap, 0)
       IN  /\ heap = ce.heap
           /\ mission = ce.ret
           /\ call = CallOf("createEmptyMission", 0, 0, 0, 0, 0, ce.ret, EmptyHeap)
    /\ addWaypointMode = FALSE
    /\ missionLog = <<>>
    /\ lastToast = <<>>
    /\ now = 0
    /\ converted = <<>>
    /\ added = <<>>
    /\ ncalls = 0
    /\ sendClicks = 0
    /\ reads = <<>>
    /\ svc = <<>>
    /\ vehicle = VehicleSilent
    /\ bridge = IdleBridge
    /\ clickHandler = FALSE
    /\ panel = MountedPanel(NominalReading)

\* the position interval fires on a trail that is full or nearly full
TrailUpdate(p) ==
    /\ stream.timer = "active"
    /\ Len(stream.delivered) < TRAIL_CAP + MaxOverflow
    /\ IntervalCallback(p)

TrailNext ==
    \/ Tick
    \/ \E p \in SimulatedPositions : TrailUpdate(p)
    \/ PositionCleanup

TrailSpec == TrailInit /\ [][TrailNext]_vars

----------------------------------------------------------------------------
(* App.tsx: handleSendWaypoints called on any held mission, the empty one  *)
(* included                                                                 *)

\* handleSendWaypoints() is called; sendClicks counts the calls
SendHandler ==
    /\ sendClicks < MaxSends
    /\ \E r1 \in BOOLEAN, r2 \in BOOLEAN : handleSendWaypoints(r1, r2)
    /\ sendClicks' = sendClicks + 1

SendNext ==
    \/ ToggleAddWaypointMode
    \/ \E position \in Positions : MapClick(position)
    \/ SendHandler
    \/ Tick

SendSpec == Init /\ [][SendNext]_vars

----------------------------------------------------------------------------
(* AlertsThresholds.tsx: sensor updates and threshold edits *)

\* the panel after its first render, on any first reading
AlertsInit ==
    /\ \E d \in SensorReadings : panel = MountedPanel(d)
    /\ LET ce == createEmptyMission(EmptyHeap, 0)
       IN  /\ heap = ce.heap
           /\ mission = ce.ret
           /\ call = CallOf("createEmptyMission", 0, 0, 0, 0, 0, ce.ret, EmptyHeap)
    /\ addWaypointMode = FALSE
    /\ missionLog = <<>>
    /\ lastToast = <<>>
    /\ now = 0
    /\ converted = <<>>
    /\ added = <<>>
    /\ ncalls = 0
    /\ sendClicks = 0
    /\ reads = <<>>
    /\ svc = <<>>
    /\ vehicle = VehicleSilent
    /\ bridge = IdleBridge
    /\ vehiclePosition = <<>>
    /\ trail = <<>>
    /\ stream = MountedStream
    /\ clickHandler = FALSE

\* a click on the span of a threshold
ThresholdClick ==
    /\ \E f \in ThresholdFields :
         /\ panel.editingField # f
         /\ panel' = handleEdit(panel, f)
    /\ UNCHANGED <<heap, mission, addWaypointMode, missionLog, lastToast, now,
                   call, converted, added, ncalls, sendClicks, reads, serviceVars,
                   bridge, telemetryVars, clickHandler>>

\* the user changes the text of the input
ThresholdType ==
    /\ panel.editingField # <<>>
    /\ \E s \in TypedValues : panel' = onChange(panel, s)
    /\ UNCHANGED <<heap, mission, addWaypointMode, missionLog, lastToast, now,
                   call, converted, added, ncalls, sendClicks, reads, serviceVars,
                   bridge, telemetryVars, clickHandler>>

\* the input loses the focus: onBlur calls handleSave(param, field)
ThresholdBlur ==
    /\ panel.editingField # <<>>
    /\ panel.saves < MaxSaves
    /\ panel' = handleSave(panel, panel.editingField[1], panel.editingField[2])
    /\ UNCHANGED <<heap, mission, addWaypointMode, missionLog, lastToast, now,
                   call, converted, added, ncalls, sendClicks, reads, serviceVars,
                   bridge, telemetryVars, clickHandler>>

\* a key is pressed in the input
ThresholdKeyDown ==
    /\ panel.editingField # <<>>
    /\ \E key \in Keys :
         /\ key = "Enter" => panel.saves < MaxSaves
         /\ panel' = handleKeyDown(panel, key, panel.editingField[1], panel.editingField[2])
    /\ UNCHANGED <<heap, mission, addWaypointMode, missionLog, lastToast, now,
                   call, converted, added, ncalls, sendClicks, reads, serviceVars,
                   bridge, telemetryVars, clickHandler>>

AlertsNext ==
    \/ SensorInterval
    \/ ThresholdClick
    \/ ThresholdType
    \/ ThresholdBlur
    \/ ThresholdKeyDown

AlertsSpec == AlertsInit /\ [][AlertsNext]_vars

----------------------------------------------------------------------------
(* Properties *)

\* the call recorded in `call` is a call of op
Called(op) == call.op = op

\* C1: after N sequential addWaypointToMission calls from createEmptyMission()
\* the mission has exactly N waypoints and waypoints[i].seq = i for every i.
C1_SeqContiguous ==
    LET w == WaypointsOf(heap, mission)
    IN  /\ Len(w) = Len(added)
        /\ \A i \in 1..Len(w) : w[i].seq = i - 1

C1_Witness ==
    /\ Len(added) >= 2
    /\ Len(WaypointsOf(heap, mission)) >= 2

\* C2: addWaypointToMission does not mutate its input: the input mission's
\* waypoint array has the same length and contents after the call, and the
\* result is a distinct mission with one more waypoint.
C2_AddKeepsInput ==
    Called("addWaypointToMission") =>
        LET M == call.arg
            before == call.pre
        IN  /\ heap.missions[M] = before.missions[M]
            /\ heap.arrays[before.missions[M].waypoints]
                 = before.arrays[before.missions[M].waypoints]
            /\ WaypointsOf(heap, M) = WaypointsOf(before, M)
            /\ call.ret # M
            /\ call.ret \notin 1..Len(before.missions)
            /\ Len(WaypointsOf(heap, call.ret)) = Len(WaypointsOf(before, M)) + 1

C2_Witness ==
    /\ Called("addWaypointToMission")
    /\ Len(WaypointsOf(call.pre, call.arg)) >= 1
    /\ Len(WaypointsOf(heap, call.ret)) >= 2

\* C3: missionToMavlinkFormat(M) has the length of M.waypoints; its element 0
\* has current = true and every other element current = false, whatever the
\* current values stored in M.
C3_CurrentOnlyFirst ==
    Called("missionToMavlinkFormat") =>
        LET out == ItemsOf(heap, call.ret)
            inp == WaypointsOf(call.pre, call.arg)
        IN  /\ Len(out) = Len(inp)
            /\ \A i \in 1..Len(out) : out[i].current = (i = 1)

C3_Witness ==
    /\ Called("missionToMavlinkFormat")
    /\ LET inp == WaypointsOf(call.pre, call.arg)
       IN  /\ Len(inp) >= 2
           /\ ~inp[1].current
           /\ inp[2].current
           /\ inp[2].seq = 0

\* C4: in every reachable state of the frontend no waypoint of a mission
\* object (the held mission, and the missions the log refers to) has
\* current = true; current = true exists only in arrays returned by
\* missionToMavlinkFormat.
C4_HeldCurrentFalse ==
    /\ \A i \in 1..Len(WaypointsOf(heap, mission)) :
         ~WaypointsOf(heap, mission)[i].current
    /\ \A m \in 1..Len(heap.missions) :
         \A i \in 1..Len(WaypointsOf(heap, m)) : ~WaypointsOf(heap, m)[i].current
    /\ \A a \in 1..Len(heap.arrays) :
         (\E i \in 1..Len(heap.arrays[a]) : heap.wps[heap.arrays[a][i]].current)
            => \E c \in 1..Len(converted) : converted[c].ret = a

C4_Witness ==
    /\ Called("missionToMavlinkFormat")
    /\ call.arg = mission
    /\ Len(WaypointsOf(heap, mission)) >= 1
    /\ ItemsOf(heap, call.ret)[1].current
    /\ missionLog # <<>>

\* C5: missionToMavlinkFormat leaves its input mission unchanged, and output
\* element i equals input waypoint i in every field except current, in the
\* input's order.
C5_ConvertIsPure ==
    Called("missionToMavlinkFormat") =>
        LET M == call.arg
            before == call.pre
            out == ItemsOf(heap, call.ret)
            inp == WaypointsOf(before, M)
        IN  /\ heap.missions[M] = before.missions[M]
            /\ heap.arrays[before.missions[M].waypoints]
                 = before.arrays[before.missions[M].waypoints]
            /\ MissionValue(heap, M) = MissionValue(before, M)
            /\ Len(out) = Len(inp)
            /\ \A i \in 1..Len(out) :
                 out[i] = [inp[i] EXCEPT !.current = out[i].current]

C5_Witness ==
    /\ Called("missionToMavlinkFormat")
    /\ LET inp == WaypointsOf(call.pre, call.arg)
       IN  /\ Len(inp) >= 2
           /\ inp[1].seq # 0
           /\ inp[1].current
           /\ inp[1].command # inp[2].command

\* C6: a mission built from the empty mission by adding (lat_i, lon_i) has
\* waypoints[i].x = lat_i and waypoints[i].y = lon_i for every i.
C6_CoordinatesRoundTrip ==
    LET w == WaypointsOf(heap, mission)
    IN  \A i \in 1..Len(added) :
            /\ i <= Len(w)
            /\ w[i].x = added[i][1]
            /\ w[i].y = added[i][2]

C6_Witness ==
    /\ Len(added) >= 2
    /\ added[1] # added[2]
    /\ added[1][1] # added[1][2]

\* C7: createWaypoint(seq, lat, lon) returns, for every input, a waypoint
\* with seq, x = lat, y = lon as supplied and the defaults frame 3, command
\* 16, current false, autocontinue true, param1..4 = 0, 2, 0, 0 and z = 0.
C7_CreateWaypointDefaults ==
    Called("createWaypoint") =>
        heap.wps[call.ret] =
            [seq |-> call.seq, frame |-> 3, command |-> 16, current |-> FALSE,
             autocontinue |-> TRUE, param1 |-> 0, param2 |-> 2, param3 |-> 0,
             param4 |-> 0, x |-> call.lat, y |-> call.lon, z |-> 0]

C7_Witness ==
    /\ Called("createWaypoint")
    /\ call.seq < 0
    /\ call.lat < -90
    /\ call.lon > 180

\* C8: createEmptyMission() returns a mission with zero waypoints,
\* currentWaypointIndex = 0, and createdAt and updatedAt both the time of
\* the call.
C8_EmptyMission ==
    Called("createEmptyMission") =>
        LET v == MissionValue(heap, call.ret)
        IN  /\ v.waypoints = <<>>
            /\ v.currentWaypointIndex = 0
            /\ v.metadata.createdAt = toISOString(call.t)
            /\ v.metadata.updatedAt = toISOString(call.t)
            /\ v.metadata.createdAt = v.metadata.updatedAt

C8_Witness ==
    /\ Called("createEmptyMission")
    /\ call.t > 0
    /\ Len(call.pre.missions) >= 2
    /\ mission = call.ret

\* C9: addWaypointToMission changes only the waypoint list (one waypoint
\* appended at the end, its seq the previous count) and metadata.updatedAt
\* (the time of the call); name, createdAt, currentWaypointIndex and the
\* earlier waypoints are carried over.
C9_AddFrame ==
    Called("addWaypointToMission") =>
        LET old == MissionValue(call.pre, call.arg)
            new == MissionValue(heap, call.ret)
            oldArr == call.pre.arrays[call.pre.missions[call.arg].waypoints]
            newArr == heap.arrays[heap.missions[call.ret].waypoints]
            n == Len(old.waypoints)
        IN  /\ new.metadata.name = old.metadata.name
            /\ new.metadata.createdAt = old.metadata.createdAt
            /\ new.metadata.updatedAt = toISOString(call.t)
            /\ new.currentWaypointIndex = old.currentWaypointIndex
            /\ Len(new.waypoints) = n + 1
            /\ \A i \in 1..n : newArr[i] = oldArr[i] /\ new.waypoints[i] = old.waypoints[i]
            /\ new.waypoints[n + 1].seq = n
            /\ new.waypoints[n + 1].x = call.lat
            /\ new.waypoints[n + 1].y = call.lon

C9_Witness ==
    /\ Called("addWaypointToMission")
    /\ LET old == MissionValue(call.pre, call.arg)
       IN  /\ old.metadata.name = "Survey"
           /\ old.currentWaypointIndex = 1
           /\ old.metadata.updatedAt # toISOString(call.t)
           /\ Len(old.waypoints) >= 1

\* C10: two missionToMavlinkFormat calls on the same unchanged mission give
\* structurally identical results, and every call computes a new array (no
\* call returns an array an earlier call returned).
C10_ConvertRepeatable ==
    \A i \in 1..Len(converted), j \in 1..Len(converted) :
        /\ (MissionValue(heap, converted[i].arg) = MissionValue(heap, converted[j].arg)
              => ItemsOf(heap, converted[i].ret) = ItemsOf(heap, converted[j].ret))
        /\ (i # j => converted[i].ret # converted[j].ret)

C10_Witness ==
    /\ Len(converted) >= 2
    /\ converted[1].arg = converted[2].arg
    /\ Len(WaypointsOf(heap, converted[1].arg)) >= 1
    /\ ItemsOf(heap, converted[1].ret) = ItemsOf(heap, converted[2].ret)

\* C11: uploadMission always resolves with a result value and never rejects
\* or throws; when the result is not a success it carries an errorCode and
\* an errorMessage.
C11_UploadAlwaysResolves ==
    \A i \in 1..Len(svc) :
        svc[i].method = "uploadMission" =>
            /\ svc[i].outcome = "resolved"
            /\ Len(svc[i].result) = 1
            /\ \/ svc[i].result[1].success
               \/ /\ svc[i].result[1].errorCode # <<>>
                  /\ svc[i].result[1].errorMessage # <<>>

\* C12: a send is recorded as Accepted only after an upload that the vehicle
\* acknowledged positively with a waypoint count matching the request.
C12_AcceptedOnlyAfterAck ==
    \A i \in 1..Len(missionLog) :
        missionLog[i].status = "Accepted" =>
            \E j \in 1..Len(svc) :
                /\ svc[j].method = "uploadMission"
                /\ svc[j].vehicle.kind = "accept"
                /\ svc[j].outcome = "resolved"
                /\ svc[j].result[1].success
                /\ svc[j].result[1].acceptedWaypointCount = missionLog[i].waypointCount

\* C13: an upload of a mission of N waypoints that the vehicle accepts in full
\* resolves with success = true and acceptedWaypointCount = N; one the vehicle
\* answers with a rejection code resolves with success = false, that
\* errorCode and acceptedWaypointCount = 0.
C13_UploadResultValues ==
    \A i \in 1..Len(svc) :
        svc[i].method = "uploadMission" =>
            /\ svc[i].vehicle.kind = "accept" =>
                 /\ svc[i].outcome = "resolved"
                 /\ svc[i].result[1].success
                 /\ svc[i].result[1].acceptedWaypointCount
                        = Len(WaypointsOf(heap, svc[i].arg))
            /\ svc[i].vehicle.kind = "reject" =>
                 /\ svc[i].outcome = "resolved"
                 /\ ~svc[i].result[1].success
                 /\ svc[i].result[1].errorCode = <<svc[i].vehicle.code>>
                 /\ svc[i].result[1].acceptedWaypointCount = 0

\* C14: every uploadMission call ends: an upload that is Uploading always
\* reaches Accepted, Rejected or TimedOut, and with no acknowledgment at all
\* it reaches TimedOut.
C14_UploadEventuallyEnds ==
    /\ (bridge.state = "Uploading") ~> (bridge.state \in TerminalStates)
    /\ (bridge.state = "Uploading" /\ vehicle.kind = "none") ~> (bridge.state = "TimedOut")

\* an upload the vehicle never answered has timed out
C14_Witness ==
    /\ vehicle.kind = "none"
    /\ bridge.state = "TimedOut"
    /\ bridge.received = 0
    /\ bridge.result # <<>>

\* C15: no result is delivered before a terminal acknowledgment or a timeout:
\* while the upload is Uploading there is no result, a result exists only
\* with a terminal acknowledgment or a timeout, and a successful one only
\* when every item was sent and acknowledged.
C15_NoResultBeforeTerminalAck ==
    /\ bridge.state = "Uploading" => bridge.result = <<>>
    /\ bridge.result # <<>> =>
         /\ bridge.state \in TerminalStates
         /\ bridge.ack.kind # "none" \/ bridge.timedOut
         /\ bridge.result[1].success =>
              /\ bridge.ack.kind = "accept"
              /\ Len(ItemsSent) = RequestCount
              /\ bridge.received = RequestCount

\* some but not all items are acknowledged and the upload is still Uploading,
\* and: an upload that had a partial acknowledgment ended by a timeout
C15_Witness ==
    \/ /\ bridge.state = "Uploading"
       /\ bridge.received > 0
       /\ bridge.received < RequestCount
       /\ bridge.result = <<>>
    \/ /\ bridge.state = "TimedOut"
       /\ bridge.received > 0
       /\ bridge.received < RequestCount

C18_NoDeliveryAfterUnsubscribe ==
    stream.cleanups >= 1 =>
        /\ stream.timer = "cleared"
        /\ Len(stream.delivered) = stream.atCleanup
        /\ Len(trail) = stream.atCleanup
        /\ vehiclePosition # <<>> =>
             vehiclePosition[1].timestamp = stream.delivered[stream.atCleanup]

\* the handle was called twice after a delivery, and the clock has advanced
\* since that delivery
C18_Witness ==
    /\ stream.cleanups = 2
    /\ stream.atCleanup >= 1
    /\ stream.delivered[stream.atCleanup] = toISOString(0)
    /\ now > 0

C20_ReadsNeverChange ==
    /\ \A i \in 1..Len(reads) :
         /\ reads[i].kind = "mission" =>
              MissionValue(heap, reads[i].addr) = reads[i].value
         /\ reads[i].kind = "array" =>
              ItemsOf(heap, reads[i].addr) = reads[i].value
    /\ \A i \in 1..Len(missionLog) :
         Len(WaypointsOf(heap, missionLog[i].mission)) = missionLog[i].waypointCount
    /\ Len(WaypointsOf(heap, mission)) = Len(added)
    /\ \A k \in 1..Len(added) :
         /\ WaypointsOf(heap, mission)[k].x = added[k][1]
         /\ WaypointsOf(heap, mission)[k].y = added[k][2]

\* a mission was captured by a send and an array was returned by a
\* conversion, the held mission was replaced by an add or a clear after
\* both, and a position update arrived
C20_Witness ==
    /\ \E i \in 1..Len(reads) : reads[i].kind = "mission" /\ reads[i].addr # mission
    /\ \E i \in 1..Len(reads) : reads[i].kind = "array"
    /\ call.op \in { "addWaypointToMission", "createEmptyMission" }
    /\ vehiclePosition # <<>>

\* C21: after a clear, whatever the mission was, the held mission has no
\* waypoint and currentWaypointIndex = 0; the add that follows a clear makes
\* a waypoint with seq = 0; and after any run of adds and clears the held
\* waypoints have seq 0, 1, 2, ... in order.
C21_ClearReplaces ==
    /\ Called("createEmptyMission") =>
         /\ mission = call.ret
         /\ WaypointsOf(heap, mission) = <<>>
         /\ heap.missions[mission].currentWaypointIndex = 0
    /\ (Called("addWaypointToMission") /\ WaypointsOf(call.pre, call.arg) = <<>>) =>
         /\ Len(WaypointsOf(heap, mission)) = 1
         /\ WaypointsOf(heap, mission)[1].seq = 0
    /\ \A i \in 1..Len(WaypointsOf(heap, mission)) :
         WaypointsOf(heap, mission)[i].seq = i - 1

\* a mission of two waypoints was cleared and a waypoint was added after it
C21_Witness ==
    /\ Called("addWaypointToMission")
    /\ WaypointsOf(call.pre, call.arg) = <<>>
    /\ call.arg > 1
    /\ \E m \in 1..Len(heap.missions) : Len(WaypointsOf(heap, m)) = 2

\* C22: a telemetry update changes vehiclePosition and trail only and leaves
\* the heap, the held mission and the rest of the mission state as they
\* were; and in every reachable state every mission object, the held one
\* included, has currentWaypointIndex = 0.
C22_IndexNotSynchronized ==
    /\ [](\A m \in 1..Len(heap.missions) : heap.missions[m].currentWaypointIndex = 0)
    /\ [][stream'.delivered # stream.delivered =>
            /\ UNCHANGED <<heap, mission, addWaypointMode, missionLog, added>>
            /\ trail' # trail
            /\ vehiclePosition' # <<>>]_vars

\* a position update has arrived while the held mission has a waypoint
C22_Witness ==
    /\ stream.delivered # <<>>
    /\ trail # <<>>
    /\ Len(WaypointsOf(heap, mission)) >= 1
    /\ heap.missions[mission].currentWaypointIndex = 0

\* C23: every method of MockMavLinkService ends in an error, none in a
\* normal result, in any call order.
C23_AllMethodsThrow ==
    \A i \in 1..Len(svc) :
        /\ svc[i].outcome \in { "rejected", "threw" }
        /\ svc[i].error = NotImplemented

\* C24: the trail never holds more than 300 points, and each position update
\* puts the new [lat, lon] at the end, keeps the points already there in
\* their order and, when the trail is full, drops the first point only.
C24_TrailCap ==
    /\ [](Len(trail) <= TRAIL_CAP)
    /\ [][stream'.delivered # stream.delivered =>
            trail' = (IF Len(trail) < TRAIL_CAP THEN trail ELSE Tail(trail))
                        \o << <<vehiclePosition'[1].lat, vehiclePosition'[1].lon>> >>]_vars

\* more than 300 positions have arrived: the trail is full and its first
\* points were dropped
C24_Witness ==
    /\ Len(stream.delivered) > TRAIL_CAP + 1
    /\ Len(trail) = TRAIL_CAP
    /\ trail[TRAIL_CAP] = <<vehiclePosition[1].lat, vehiclePosition[1].lon>>

\* C25: a step adds a waypoint to the held mission only when add-waypoint
\* mode is on before it, and the mode is off after it, so one activation of
\* the mode adds at most one waypoint; clicks, toggles and the renders caused
\* by sends, clears and position updates may come in any order.
C25_OneAddPerActivation ==
    [][Len(WaypointsOf(heap', mission')) > Len(WaypointsOf(heap, mission)) =>
          /\ addWaypointMode
          /\ ~addWaypointMode'
          /\ Len(WaypointsOf(heap', mission')) = Len(WaypointsOf(heap, mission)) + 1]_vars

\* two waypoints were added, each in its own activation of the mode, with a
\* position update rendered in between or after
C25_Witness ==
    /\ Called("addWaypointToMission")
    /\ Len(added) = 2
    /\ ~addWaypointMode
    /\ ~clickHandler
    /\ stream.delivered # <<>>

\* C26: a call of handleSendWaypoints never changes the held mission; with an
\* empty mission it changes nothing, log and toast included; with a
\* non-empty mission it puts exactly one entry in front of the log, whose
\* waypointCount is the mission's waypoint count, and keeps the earlier
\* entries in their order.
C26_SendFrame ==
    [][sendClicks' # sendClicks =>
          /\ UNCHANGED <<heap, mission, addWaypointMode, added, now>>
          /\ IF Len(WaypointsOf(heap, mission)) = 0
             THEN UNCHANGED <<missionLog, lastToast>>
             ELSE /\ Len(missionLog') = Len(missionLog) + 1
                  /\ Tail(missionLog') = missionLog
                  /\ missionLog'[1].waypointCount = Len(WaypointsOf(heap, mission))
                  /\ missionLog'[1].mission = mission]_vars

\* send was called once on the empty mission and twice on a mission with
\* waypoints: the log holds two entries
C26_Witness ==
    /\ sendClicks = 3
    /\ Len(missionLog) = 2
    /\ missionLog[1] # missionLog[2]

\* the two messages handleSendWaypoints chooses between
IsAcceptedMessage(m) == m[1] = "Mission accepted. USV will navigate to "

IsRejectedMessage(m) ==
    m = <<"Mission rejected. Waypoint path exceeds safe navigation parameters.">>

\* C27: every mission-log entry has a message that agrees with its status:
\* an Accepted entry carries the "Mission accepted" message and a Rejected
\* entry the "Mission rejected" message
C27_MessageAgreesWithStatus ==
    \A i \in 1..Len(missionLog) :
        /\ missionLog[i].status = "Accepted" => IsAcceptedMessage(missionLog[i].message)
        /\ missionLog[i].status = "Rejected" => IsRejectedMessage(missionLog[i].message)

\* C28: every mission-log entry carries a waypoints coordinate list, the
\* field MissionLogEntry declares and MissionLog reads, whose length equals
\* the entry's waypointCount
C28_EntryCarriesWaypoints ==
    \A i \in 1..Len(missionLog) :
        /\ "waypoints" \in DOMAIN missionLog[i]
        /\ Len(missionLog[i].waypoints) = missionLog[i].waypointCount

\* the ids of the toasts the last handler raised
ToastedIds(p) == {t.id : t \in p.toasted}

\* C29, as stated: at a sensor update a toast is raised for a parameter
\* exactly when its alert is active at this update and was not active at the
\* previous update
C29_ToastAtUpdateOnset ==
    panel.event = "update" =>
        ToastedIds(panel) = panel.atUpdate \ panel.beforeUpdate

\* C29, amended: a toast is raised for a parameter exactly when its alert
\* becomes active, whether a sensor update or a saved threshold makes it so:
\* the first render toasts every active alert, and every later handler toasts
\* the alerts that are active after it and were not active before it
C29_ToastOnOnset ==
    /\ panel.event = "mount" => ToastedIds(panel) = ActiveIds(panel)
    /\ [][ToastedIds(panel') = ActiveIds(panel') \ ActiveIds(panel)]_vars

\* a saved threshold made an alert active, and the save raised its toast
C29_Witness ==
    /\ panel.event = "save"
    /\ panel.toasted # {}

\* C30: handleSave on a text that is no number or is negative leaves every
\* threshold unchanged; on a valid text it changes only the edited field, to
\* the number the text denotes; Escape changes no threshold; after a save or
\* Escape editingField is null and tempValue is empty
C30_EditRejectsInvalid ==
    [][LET f == panel.editingField
           text == panel.tempValue
           closed == panel'.editingField = <<>> /\ panel'.tempValue = <<>>
       IN  /\ panel'.saves # panel.saves =>
                /\ closed
                /\ \A pa \in DOMAIN panel.thresholds, fl \in {"min", "max", "optimal"} :
                       <<pa, fl>> # f =>
                           panel'.thresholds[pa][fl] = panel.thresholds[pa][fl]
                /\ IF IsValidNumber(text) /\ text[1] # "-"
                   THEN /\ panel'.thresholds[f[1]][f[2]] >= 0
                        /\ numberToString(panel'.thresholds[f[1]][f[2]]) = text
                   ELSE panel'.thresholds = panel.thresholds
           /\ (panel'.event = "escape" /\ f # <<>>) =>
                /\ closed
                /\ panel'.thresholds = panel.thresholds]_vars

\* a save of a valid value changed a threshold and closed the editor
C30_Witness ==
    /\ panel.event = "save"
    /\ panel.thresholds # DefaultThresholds
    /\ panel.editingField = <<>>
    /\ panel.tempValue = <<>>

====
